---- MODULE Spec2Model ----
(***************************************************************************)
(* Voice AI Assistant API (main.py): the background initialization task,   *)
(* the /chat/voice and /chat/text handlers, transcribe_audio and           *)
(* process_query, on one asyncio event loop.                               *)
(*                                                                         *)
(* Texts that the code trims or tests for a suffix (file names, engine     *)
(* text, transcripts, queries) are sequences of one-character strings.     *)
(* Texts that the code only passes on or tests for emptiness (responses,   *)
(* error details) are strings.                                             *)
(***************************************************************************)
EXTENDS Integers, Sequences, FiniteSets, TLC

VARIABLES
    whisper_model,   \* main.py:43  FALSE is None, TRUE is a loaded model
    groq_llm,        \* main.py:44
    search_tool,     \* main.py:45
    agent_executor,  \* main.py:46
    init_pc,         \* position of the initialize_models task
    running,         \* the task that holds the event loop (NoTask: the loop is idle)
    req,             \* per request: the handler's position and its locals
    outcome,         \* per request: what the caller received
    calls,           \* per request: how often each collaborator was invoked
    tmpfiles,        \* the requests whose temp file exists on disk
    stub,            \* what stands for the engine and the agent: NoStub is
                     \* the real collaborators, otherwise deterministic stubs
    repeats          \* the requests that sent the stub's upload with both
                     \* capabilities ready

vars == <<whisper_model, groq_llm, search_tool, agent_executor, init_pc,
          running, req, outcome, calls, tmpfiles, stub, repeats>>

globals == <<whisper_model, groq_llm, search_tool, agent_executor>>

-----------------------------------------------------------------------------
(* Bounds *)

MaxReq == 2

Reqs == 1..MaxReq

\* the event loop runs one task at a time: a request's handler, the
\* initialization task, or none
NoTask == MaxReq + 1

InitTask == MaxReq + 2

-----------------------------------------------------------------------------
(* Texts *)

Whitespace == {" ", "\n", "\t"}

RECURSIVE LStrip(_)
LStrip(s) ==
    IF s # <<>> /\ Head(s) \in Whitespace THEN LStrip(Tail(s)) ELSE s

RECURSIVE RStrip(_)
RStrip(s) ==
    IF s # <<>> /\ s[Len(s)] \in Whitespace
    THEN RStrip(SubSeq(s, 1, Len(s) - 1))
    ELSE s

\* str.strip()
Strip(s) == RStrip(LStrip(s))

\* str.endswith(suffix)
EndsWith(s, suffix) ==
    /\ Len(s) >= Len(suffix)
    /\ SubSeq(s, Len(s) - Len(suffix) + 1, Len(s)) = suffix

\* the tuple of suffixes of main.py:141
SupportedSuffixes ==
    { <<".", "w", "a", "v">>, <<".", "m", "p", "3">>,
      <<".", "o", "g", "g">>, <<".", "f", "l", "a", "c">> }

\* a test of the extension without its dot
HasSupportedSuffix_NoDot(filename) ==
    \E suffix \in SupportedSuffixes : EndsWith(filename, Tail(suffix))

\* file.filename.endswith((".wav", ".mp3", ".ogg", ".flac"))
HasSupportedSuffix(filename) ==
    \E suffix \in SupportedSuffixes : EndsWith(filename, suffix)

\* str.rfind(ch): the last position of ch, 0 when there is none
RFind(s, ch) ==
    IF \E i \in 1..Len(s) : s[i] = ch
    THEN CHOOSE i \in 1..Len(s) :
            s[i] = ch /\ \A j \in (i + 1)..Len(s) : s[j] # ch
    ELSE 0

\* os.path.splitext(p)[1]: from the last dot of the base name on, unless
\* only dots precede it
SplitExt(p) ==
    LET sepIndex == RFind(p, "/")
        dotIndex == RFind(p, ".")
    IN  IF /\ dotIndex > sepIndex
           /\ \E i \in (sepIndex + 1)..(dotIndex - 1) : p[i] # "."
        THEN SubSeq(p, dotIndex, Len(p))
        ELSE <<>>

-----------------------------------------------------------------------------
(* Inputs and collaborator behaviour *)

\* upload names: the four supported suffixes, an unsupported one, a suffix in
\* upper case, a name without a dot, a name that is only a suffix
Filenames ==
    { <<"c", ".", "w", "a", "v">>, <<"c", ".", "m", "p", "3">>,
      <<"c", ".", "o", "g", "g">>, <<"c", ".", "f", "l", "a", "c">>,
      <<"c", ".", "m", "p", "4">>, <<"c", ".", "W", "A", "V">>,
      <<"w", "a", "v">>, <<".", "w", "a", "v">> }

\* the bytes of an upload: what await file.read() returns
Contents == {"a", "b"}

\* request.text of the text endpoint
Texts == { <<>>, <<" ">>, <<"h", "i">> }

\* the "text" values the transcription engine may return
EngineTexts == { <<>>, <<" ">>, <<"\n", " ">>, <<"h", "i">>, <<" ", "h", "i", "\n">> }

\* whisper_model.transcribe(file_path, language="en"): raises, or returns a
\* dict whose "text" is absent, None or a string
EngineOutcomes ==
    { [raises |-> TRUE, has_text |-> FALSE, text_none |-> FALSE, text |-> <<>>],
      [raises |-> FALSE, has_text |-> FALSE, text_none |-> FALSE, text |-> <<>>],
      [raises |-> FALSE, has_text |-> TRUE, text_none |-> TRUE, text |-> <<>>] }
    \cup { [raises |-> FALSE, has_text |-> TRUE, text_none |-> FALSE, text |-> t] :
              t \in EngineTexts }

\* "intermediate_steps" values: each entry is the tool of step[0]
Traces ==
    { <<>>, <<"WebSearch">>, <<"Calculator">>, <<"Calculator", "WebSearch">>,
      <<"Calculator", "Calculator">> }

AgentOutputs == {"", "4"}

\* agent_executor.invoke({"input": query}): raises, returns something that
\* is no dict, or returns a dict whose "output" and "intermediate_steps" are
\* each absent, None or a value
AgentOutcomes ==
    { [raises |-> TRUE, is_dict |-> FALSE, has_output |-> FALSE,
       output_none |-> FALSE, output |-> "", has_steps |-> FALSE,
       steps_none |-> FALSE, steps |-> <<>>],
      [raises |-> FALSE, is_dict |-> FALSE, has_output |-> FALSE,
       output_none |-> FALSE, output |-> "", has_steps |-> FALSE,
       steps_none |-> FALSE, steps |-> <<>>] }
    \cup
    { [raises |-> FALSE, is_dict |-> TRUE, has_output |-> o.has,
       output_none |-> o.none, output |-> o.val, has_steps |-> t.has,
       steps_none |-> t.none, steps |-> t.val] :
        o \in { [has |-> FALSE, none |-> FALSE, val |-> ""],
                [has |-> TRUE, none |-> TRUE, val |-> ""] }
              \cup { [has |-> TRUE, none |-> FALSE, val |-> v] : v \in AgentOutputs },
        t \in { [has |-> FALSE, none |-> FALSE, val |-> <<>>],
                [has |-> TRUE, none |-> TRUE, val |-> <<>>] }
              \cup { [has |-> TRUE, none |-> FALSE, val |-> v] : v \in Traces } }

-----------------------------------------------------------------------------
(* Fixed texts of main.py *)

Clarification == "I didn't catch that. Could you please repeat?"

Fallback == "I couldn't process that request."

Apology == "I encountered an error processing your request."

NotInitialized == "Models not initialized yet"

UnsupportedFormat == "Unsupported file format. Supported formats: WAV, MP3, OGG, FLAC"

UploadFailed == "File upload failed"

TranscriptionFailed == "Audio processing failed"

InternalError == "Internal server error"

-----------------------------------------------------------------------------
(* Values *)

\* a Python value that is a str or None
PyStr(s) == [none |-> FALSE, str |-> s]

PyNone == [none |-> TRUE, str |-> ""]

\* the handler's locals before the call and after the return
NoEngineResult ==
    [raises |-> FALSE, has_text |-> FALSE, text_none |-> FALSE, text |-> <<>>]

NoAgentResult ==
    [raises |-> FALSE, is_dict |-> FALSE, has_output |-> FALSE,
     output_none |-> FALSE, output |-> "", has_steps |-> FALSE,
     steps_none |-> FALSE, steps |-> <<>>]

NoResult == [response |-> PyNone, search_triggered |-> FALSE]

\* the locals of a handler and of the functions it calls, before the call
\* and after the return
NoLocals ==
    [kind |-> "none", filename |-> <<>>, content |-> "", text |-> <<>>,
     tmp_suffix |-> <<>>,
     stt_result |-> NoEngineResult, transcript |-> <<>>,
     agent_result |-> NoAgentResult, result |-> NoResult]

\* class VoiceResponse
VoiceResponse(transcript, response, search_triggered) ==
    [transcript |-> transcript, response |-> response,
     search_triggered |-> search_triggered]

NoBody == VoiceResponse(<<>>, "", FALSE)

NoOutcome == [status |-> 0, detail |-> "", body |-> NoBody, fault |-> ""]

NoCalls ==
    [storage |-> 0, transcribe |-> 0, engine |-> 0, unlink |-> 0,
     process_query |-> 0, agent |-> 0]

-----------------------------------------------------------------------------
(* transcribe_audio and process_query, after the readiness test *)

\* a readiness test that never fires
NotReady_Never(model) == FALSE

\* main.py:98 and main.py:110: "not whisper_model", "not agent_executor"
NotReady(model) == ~model

\* dict.get(key, default) of a str-or-None entry
DictGet(has, none, val, default) ==
    IF ~has THEN PyStr(default) ELSE IF none THEN PyNone ELSE PyStr(val)

\* main.py:101-106: TRUE when the try block raises, which the except clause
\* turns into HTTPException(500, "Audio processing failed")
TranscribeRaises(result) ==
    \/ result.raises
    \/ result.has_text /\ result.text_none     \* None.strip()

\* the text taken as the engine gave it
TranscribeText_NoStrip(result) ==
    IF result.has_text THEN result.text ELSE <<>>

\* main.py:103: result.get("text", "").strip()
TranscribeText(result) ==
    Strip(IF result.has_text THEN result.text ELSE <<>>)

\* a test of the first step alone
AnyWebSearch_FirstOnly(steps) ==
    steps # <<>> /\ steps[1] = "WebSearch"

\* main.py:121-124: any(step[0].tool == "WebSearch" for step in steps)
AnyWebSearch(steps) ==
    \E i \in 1..Len(steps) : steps[i] = "WebSearch"

\* a try block around the invocation alone
QueryRaises_InvokeOnly(result) == result.raises

\* main.py:120-129: TRUE when the try block raises after the agent was
\* invoked: the agent raised, the result has no get(), or the trace is None
QueryRaises(result) ==
    \/ result.raises
    \/ ~result.is_dict
    \/ result.has_steps /\ result.steps_none

\* main.py:120-135: what process_query returns for the agent's result
QueryResult(result) ==
    IF QueryRaises(result)
    THEN [response |-> PyStr(Apology), search_triggered |-> FALSE]
    ELSE [response |-> DictGet(result.has_output, result.output_none,
                               result.output, Fallback),
          search_triggered |->
              AnyWebSearch(IF result.has_steps THEN result.steps ELSE <<>>)]

-----------------------------------------------------------------------------
(* The collaborators: the real engine and agent, or deterministic stubs *)

\* the queries agent_executor.invoke can be given: a stripped transcript or
\* a request.text, neither empty
Queries == ({ Strip(t) : t \in EngineTexts } \cup Texts) \ { <<>> }

\* what a stub of the engine answers: a fault, a blank text, a text
StubEngineOutcomes ==
    { [raises |-> TRUE, has_text |-> FALSE, text_none |-> FALSE, text |-> <<>>],
      [raises |-> FALSE, has_text |-> TRUE, text_none |-> FALSE,
       text |-> <<" ">>],
      [raises |-> FALSE, has_text |-> TRUE, text_none |-> FALSE,
       text |-> <<" ", "h", "i", "\n">>] }

\* what a stub of the agent answers: a fault, or an output with its trace
StubAgentOutcomes ==
    { [raises |-> TRUE, is_dict |-> FALSE, has_output |-> FALSE,
       output_none |-> FALSE, output |-> "", has_steps |-> FALSE,
       steps_none |-> FALSE, steps |-> <<>>],
      [raises |-> FALSE, is_dict |-> TRUE, has_output |-> TRUE,
       output_none |-> FALSE, output |-> "4", has_steps |-> TRUE,
       steps_none |-> FALSE, steps |-> <<"Calculator", "WebSearch">>] }

\* the upload that is sent repeatedly when the stubs are in place
StubUploads ==
    [filename : { <<"c", ".", "w", "a", "v">>, <<"c", ".", "m", "p", "4">> },
     content : Contents]

\* whisper_model and agent_executor are the real collaborators
NoStub ==
    [on |-> FALSE,
     upload |-> [filename |-> <<>>, content |-> ""],
     engine |-> [c \in Contents |-> NoEngineResult],
     agent |-> [q \in Queries |-> NoAgentResult]]

\* what the stubs answer to other bytes and to other queries
StubEngineDefault ==
    [raises |-> FALSE, has_text |-> TRUE, text_none |-> FALSE,
     text |-> <<"h", "i">>]

StubAgentDefault ==
    [raises |-> FALSE, is_dict |-> TRUE, has_output |-> TRUE,
     output_none |-> FALSE, output |-> "", has_steps |-> FALSE,
     steps_none |-> FALSE, steps |-> <<>>]

\* deterministic stubs: the engine's answer is a function of the bytes, the
\* agent's answer a function of the query.  The answer to the bytes of the
\* upload and the answer to the query "hi" range over the outcomes above.
Stubs ==
    { [on |-> TRUE,
       upload |-> u,
       engine |-> [c \in Contents |->
                      IF c = u.content THEN e ELSE StubEngineDefault],
       agent |-> [q \in Queries |->
                     IF q = <<"h", "i">> THEN a ELSE StubAgentDefault]] :
        u \in StubUploads, e \in StubEngineOutcomes, a \in StubAgentOutcomes }

\* an engine stub that answers by the name of the temp file, which differs
\* from request to request
EngineResults_ByPath(r) ==
    IF stub.on THEN { stub.engine[c] : c \in Contents } ELSE EngineOutcomes

\* the bytes a request may carry: the real engine's answer is any of
\* EngineOutcomes whatever the bytes, so one value stands for all of them
UploadContents == IF stub.on THEN Contents ELSE {"a"}

\* main.py:102: what whisper_model.transcribe(file_path, language="en") may
\* do for the file of request r
EngineResults(r) ==
    IF stub.on THEN { stub.engine[req[r].content] } ELSE EngineOutcomes

-----------------------------------------------------------------------------
(* State *)

\* main.py:43-46: the globals are None; no request has arrived
InitProgram ==
    /\ whisper_model = FALSE
    /\ groq_llm = FALSE
    /\ search_tool = FALSE
    /\ agent_executor = FALSE
    /\ init_pc = "unstarted"
    /\ running = NoTask
    /\ req = [r \in Reqs |-> [pc |-> "idle"] @@ NoLocals]
    /\ outcome = [r \in Reqs |-> NoOutcome]
    /\ calls = [r \in Reqs |-> NoCalls]
    /\ tmpfiles = {}
    /\ repeats = {}

\* the service with its real collaborators
Init ==
    /\ InitProgram
    /\ stub = NoStub

\* the service with deterministic stubs in place of the engine and the
\* agent: the globals hold the stubs, as after an initialization that
\* succeeded, and no initialization task runs to replace them
InitStub ==
    /\ whisper_model = TRUE
    /\ groq_llm = TRUE
    /\ search_tool = TRUE
    /\ agent_executor = TRUE
    /\ init_pc = "done"
    /\ running = NoTask
    /\ req = [r \in Reqs |-> [pc |-> "idle"] @@ NoLocals]
    /\ outcome = [r \in Reqs |-> NoOutcome]
    /\ calls = [r \in Reqs |-> NoCalls]
    /\ tmpfiles = {}
    /\ repeats = {}
    /\ stub \in Stubs

\* the handler of r moves to pc with its locals changed as in upd
Goto(r, pc, upd) ==
    req' = [req EXCEPT ![r] = [pc |-> pc] @@ upd @@ req[r]]

\* the handler of r ends: its locals are gone and the event loop is free
Return(r, o) ==
    /\ req' = [req EXCEPT ![r] = [pc |-> "done"] @@ NoLocals]
    /\ outcome' = [outcome EXCEPT ![r] = o]
    /\ running' = NoTask

\* raise HTTPException(status_code, detail) leaving the handler
RaiseHTTP(r, status_code, detail) ==
    Return(r, [status |-> status_code, detail |-> detail, body |-> NoBody,
               fault |-> ""])

\* return VoiceResponse(...) from the handler
Respond(r, body) ==
    Return(r, [status |-> 200, detail |-> "", body |-> body, fault |-> ""])

\* an exception that is no HTTPException leaves the handler
Unhandled(r, fault) ==
    Return(r, [status |-> 0, detail |-> "", body |-> NoBody, fault |-> fault])

Called(r, what) ==
    calls' = [calls EXCEPT ![r] =
                 [k \in DOMAIN calls[r] |->
                     IF k \in what THEN calls[r][k] + 1 ELSE calls[r][k]]]

-----------------------------------------------------------------------------
(* Initialization: startup_event creates the task; initialize_models has  *)
(* no await, so once it runs it holds the event loop until it returns or  *)
(* raises.  A stage that raises ends the task; nothing starts it again.   *)

startup_event ==
    /\ init_pc = "unstarted"
    /\ init_pc' = "created"
    /\ UNCHANGED <<stub, repeats>>
    /\ UNCHANGED <<globals, running, req, outcome, calls, tmpfiles>>

\* a first stage whose failure is swallowed, the task going on without an
\* engine
LoadWhisper_ContinueOnFailure ==
    /\ init_pc = "created"
    /\ running = NoTask
    /\ whisper_model' \in BOOLEAN
    /\ init_pc' = "llm"
    /\ running' = InitTask
    /\ UNCHANGED <<stub, repeats>>
    /\ UNCHANGED <<groq_llm, search_tool, agent_executor, req, outcome, calls,
                   tmpfiles>>

\* a task that is started again after a stage has failed
LoadWhisper_Retry ==
    /\ init_pc \in {"created", "failed"}
    /\ running = NoTask
    /\ \/ /\ whisper_model' = TRUE
          /\ init_pc' = "llm"
          /\ running' = InitTask
       \/ /\ init_pc' = "failed"
          /\ UNCHANGED <<whisper_model, running>>
    /\ UNCHANGED <<stub, repeats>>
    /\ UNCHANGED <<groq_llm, search_tool, agent_executor, req, outcome, calls,
                   tmpfiles>>

\* main.py:58  whisper_model = whisper.load_model(WHISPER_MODEL_SIZE)
LoadWhisper ==
    /\ init_pc = "created"
    /\ running = NoTask
    /\ \/ /\ whisper_model' = TRUE
          /\ init_pc' = "llm"
          /\ running' = InitTask
       \/ /\ init_pc' = "failed"
          /\ UNCHANGED <<whisper_model, running>>
    /\ UNCHANGED <<stub, repeats>>
    /\ UNCHANGED <<groq_llm, search_tool, agent_executor, req, outcome, calls,
                   tmpfiles>>

\* main.py:61-65  groq_llm = ChatGroq(...)
CreateGroq ==
    /\ init_pc = "llm"
    /\ running = InitTask
    /\ \/ /\ groq_llm' = TRUE
          /\ init_pc' = "search"
          /\ UNCHANGED running
       \/ /\ init_pc' = "failed"
          /\ running' = NoTask
          /\ UNCHANGED groq_llm
    /\ UNCHANGED <<stub, repeats>>
    /\ UNCHANGED <<whisper_model, search_tool, agent_executor, req, outcome,
                   calls, tmpfiles>>

\* main.py:68  search_tool = GoogleSerperAPIWrapper(...)
CreateSearchTool ==
    /\ init_pc = "search"
    /\ running = InitTask
    /\ \/ /\ search_tool' = TRUE
          /\ init_pc' = "agent"
          /\ UNCHANGED running
       \/ /\ init_pc' = "failed"
          /\ running' = NoTask
          /\ UNCHANGED search_tool
    /\ UNCHANGED <<stub, repeats>>
    /\ UNCHANGED <<whisper_model, groq_llm, agent_executor, req, outcome,
                   calls, tmpfiles>>

\* a last stage that, when it fails, resets what the earlier stages built
CreateAgent_ResetOnFailure ==
    /\ init_pc = "agent"
    /\ running = InitTask
    /\ \/ /\ agent_executor' = TRUE
          /\ init_pc' = "done"
          /\ UNCHANGED <<whisper_model, groq_llm, search_tool>>
       \/ /\ init_pc' = "failed"
          /\ whisper_model' = FALSE
          /\ groq_llm' = FALSE
          /\ search_tool' = FALSE
          /\ UNCHANGED agent_executor
    /\ running' = NoTask
    /\ UNCHANGED <<stub, repeats>>
    /\ UNCHANGED <<req, outcome, calls, tmpfiles>>

\* main.py:71-90  tools = [Tool(name="WebSearch", ...)];
\* agent_executor = initialize_agent(tools, groq_llm, ...)
CreateAgent ==
    /\ init_pc = "agent"
    /\ running = InitTask
    /\ \/ /\ agent_executor' = TRUE
          /\ init_pc' = "done"
       \/ /\ init_pc' = "failed"
          /\ UNCHANGED agent_executor
    /\ running' = NoTask
    /\ UNCHANGED <<stub, repeats>>
    /\ UNCHANGED <<whisper_model, groq_llm, search_tool, req, outcome, calls,
                   tmpfiles>>

initialize_models ==
    \/ LoadWhisper
    \/ CreateGroq
    \/ CreateSearchTool
    \/ CreateAgent

-----------------------------------------------------------------------------
(* POST /chat/voice *)

\* the server calls chat_voice(file): requests are served once startup is over
ChatVoiceCall(r) ==
    /\ req[r].pc = "idle"
    /\ init_pc # "unstarted"
    /\ running = NoTask
    /\ \E filename \in Filenames, content \in UploadContents :
          /\ Goto(r, "validate", [kind |-> "voice", filename |-> filename,
                                  content |-> content])
          /\ repeats' =
                IF /\ stub.on
                   /\ whisper_model /\ agent_executor
                   /\ stub.upload = [filename |-> filename, content |-> content]
                THEN repeats \cup {r}
                ELSE repeats
    /\ running' = r
    /\ UNCHANGED stub
    /\ UNCHANGED <<globals, init_pc, outcome, calls, tmpfiles>>

\* main.py:141-145
ChatVoiceValidate(r) ==
    /\ req[r].pc = "validate"
    /\ running = r
    /\ IF HasSupportedSuffix(req[r].filename)
       THEN /\ Goto(r, "store", <<>>)
            /\ UNCHANGED <<outcome, running>>
       ELSE RaiseHTTP(r, 400, UnsupportedFormat)
    /\ UNCHANGED <<stub, repeats>>
    /\ UNCHANGED <<globals, init_pc, calls, tmpfiles>>

\* main.py:148-150: NamedTemporaryFile(delete=False, suffix=...) creates the
\* file or raises; then await file.read() gives up the event loop
ChatVoiceStore(r) ==
    /\ req[r].pc = "store"
    /\ running = r
    /\ Called(r, {"storage"})
    /\ \/ /\ tmpfiles' = tmpfiles \cup {r}
          /\ Goto(r, "read", [tmp_suffix |-> SplitExt(req[r].filename)])
          /\ running' = NoTask
          /\ UNCHANGED outcome
       \/ /\ RaiseHTTP(r, 500, UploadFailed)
          /\ UNCHANGED tmpfiles
    /\ UNCHANGED <<stub, repeats>>
    /\ UNCHANGED <<globals, init_pc>>

\* an upload that is stored again after the read or the write failed
ChatVoiceRead_Retry(r) ==
    /\ req[r].pc = "read"
    /\ running = NoTask
    /\ \/ Goto(r, "transcribe", <<>>)
       \/ Goto(r, "store", <<>>)
    /\ running' = r
    /\ UNCHANGED <<stub, repeats>>
    /\ UNCHANGED <<globals, init_pc, outcome, calls, tmpfiles>>

\* main.py:150-155: the read completes and the bytes are written, or one of
\* the two raises; the with block closes the file and, with delete=False,
\* leaves it on disk
ChatVoiceRead(r) ==
    /\ req[r].pc = "read"
    /\ running = NoTask
    /\ \/ /\ Goto(r, "transcribe", <<>>)
          /\ running' = r
          /\ UNCHANGED outcome
       \/ RaiseHTTP(r, 500, UploadFailed)
    /\ UNCHANGED <<stub, repeats>>
    /\ UNCHANGED <<globals, init_pc, calls, tmpfiles>>

\* main.py:159 with transcribe_audio, main.py:96-102: the readiness test,
\* then the call of whisper_model.transcribe, a synchronous call that keeps
\* the event loop; an HTTPException passes through main.py:178-179
ChatVoiceTranscribe(r) ==
    /\ req[r].pc = "transcribe"
    /\ running = r
    /\ IF NotReady(whisper_model)
       THEN /\ Called(r, {"transcribe"})
            /\ RaiseHTTP(r, 503, NotInitialized)
       ELSE /\ Called(r, {"transcribe", "engine"})
            /\ Goto(r, "engine", <<>>)
            /\ UNCHANGED <<outcome, running>>
    /\ UNCHANGED <<stub, repeats>>
    /\ UNCHANGED <<globals, init_pc, tmpfiles>>

\* a transcribe_audio without its try block: the engine's fault reaches
\* the except clause of chat_voice
TranscribeReturn_NoTry(r) ==
    /\ req[r].pc = "engine"
    /\ running = r
    /\ \E result \in EngineResults(r) :
          IF TranscribeRaises(result)
          THEN RaiseHTTP(r, 500, InternalError)
          ELSE /\ Goto(r, "unlink",
                       [stt_result |-> result,
                        transcript |-> TranscribeText(result)])
               /\ UNCHANGED <<outcome, running>>
    /\ UNCHANGED <<stub, repeats>>
    /\ UNCHANGED <<globals, init_pc, calls, tmpfiles>>

\* main.py:102-106: whisper_model.transcribe returns or raises
TranscribeReturn(r) ==
    /\ req[r].pc = "engine"
    /\ running = r
    /\ \E result \in EngineResults(r) :
          IF TranscribeRaises(result)
          THEN RaiseHTTP(r, 500, TranscriptionFailed)
          ELSE /\ Goto(r, "unlink",
                       [stt_result |-> result,
                        transcript |-> TranscribeText(result)])
               /\ UNCHANGED <<outcome, running>>
    /\ UNCHANGED <<stub, repeats>>
    /\ UNCHANGED <<globals, init_pc, calls, tmpfiles>>

\* main.py:160  os.unlink(tmp_path) removes the file or raises, which
\* main.py:180-182 turns into 500
ChatVoiceUnlink(r) ==
    /\ req[r].pc = "unlink"
    /\ running = r
    /\ Called(r, {"unlink"})
    /\ \/ /\ tmpfiles' = tmpfiles \ {r}
          /\ Goto(r, "check", <<>>)
          /\ UNCHANGED <<outcome, running>>
       \/ /\ RaiseHTTP(r, 500, InternalError)
          /\ UNCHANGED tmpfiles
    /\ UNCHANGED <<stub, repeats>>
    /\ UNCHANGED <<globals, init_pc>>

\* main.py:163-168
ChatVoiceCheck(r) ==
    /\ req[r].pc = "check"
    /\ running = r
    /\ IF req[r].transcript = <<>>
       THEN Respond(r, VoiceResponse(<<>>, Clarification, FALSE))
       ELSE /\ Goto(r, "query", <<>>)
            /\ UNCHANGED <<outcome, running>>
    /\ UNCHANGED <<stub, repeats>>
    /\ UNCHANGED <<globals, init_pc, calls, tmpfiles>>

\* main.py:173-182: VoiceResponse(...) rejects a response that is None; the
\* except clause turns that into 500
ChatVoiceRespond(r) ==
    /\ req[r].pc = "respond"
    /\ req[r].kind = "voice"
    /\ running = r
    /\ IF req[r].result.response.none
       THEN RaiseHTTP(r, 500, InternalError)
       ELSE Respond(r, VoiceResponse(req[r].transcript,
                                     req[r].result.response.str,
                                     req[r].result.search_triggered))
    /\ UNCHANGED <<stub, repeats>>
    /\ UNCHANGED <<globals, init_pc, calls, tmpfiles>>

-----------------------------------------------------------------------------
(* process_query, called by both handlers *)

\* the query the handler passes: main.py:171 and main.py:191
Query(r) ==
    IF req[r].kind = "voice" THEN req[r].transcript ELSE req[r].text

\* main.py:120: what agent_executor.invoke({"input": query}) may do
AgentResults(r) ==
    IF stub.on THEN { stub.agent[Query(r)] } ELSE AgentOutcomes

\* a process_query that tests for the empty query before readiness
ProcessQuery_ShortCircuitFirst(r) ==
    /\ req[r].pc = "query"
    /\ running = r
    /\ IF Query(r) = <<>>
       THEN /\ Called(r, {"process_query"})
            /\ Goto(r, "respond",
                    [result |-> [response |-> PyStr(Clarification),
                                 search_triggered |-> FALSE]])
            /\ UNCHANGED <<outcome, running>>
       ELSE IF NotReady(agent_executor)
       THEN /\ Called(r, {"process_query"})
            /\ RaiseHTTP(r, 503, NotInitialized)
       ELSE /\ Called(r, {"process_query", "agent"})
            /\ Goto(r, "agent", <<>>)
            /\ UNCHANGED <<outcome, running>>
    /\ UNCHANGED <<stub, repeats>>
    /\ UNCHANGED <<globals, init_pc, tmpfiles>>

\* main.py:108-120: the readiness test, the short-circuit on an empty
\* query, then the call of agent_executor.invoke, a synchronous call that
\* keeps the event loop; the HTTPException of main.py:111 leaves the handler
ProcessQuery(r) ==
    /\ req[r].pc = "query"
    /\ running = r
    /\ IF NotReady(agent_executor)
       THEN /\ Called(r, {"process_query"})
            /\ RaiseHTTP(r, 503, NotInitialized)
       ELSE IF Query(r) = <<>>
       THEN /\ Called(r, {"process_query"})
            /\ Goto(r, "respond",
                    [result |-> [response |-> PyStr(Clarification),
                                 search_triggered |-> FALSE]])
            /\ UNCHANGED <<outcome, running>>
       ELSE /\ Called(r, {"process_query", "agent"})
            /\ Goto(r, "agent", <<>>)
            /\ UNCHANGED <<outcome, running>>
    /\ UNCHANGED <<stub, repeats>>
    /\ UNCHANGED <<globals, init_pc, tmpfiles>>

\* main.py:120-135: agent_executor.invoke returns or raises, and
\* process_query returns to the handler
ProcessQueryReturn(r) ==
    /\ req[r].pc = "agent"
    /\ running = r
    /\ \E result \in AgentResults(r) :
          Goto(r, "respond",
               [agent_result |-> result, result |-> QueryResult(result)])
    /\ UNCHANGED <<stub, repeats>>
    /\ UNCHANGED <<globals, init_pc, running, outcome, calls, tmpfiles>>

-----------------------------------------------------------------------------
(* POST /chat/text *)

\* the server calls chat_text(request)
ChatTextCall(r) ==
    /\ req[r].pc = "idle"
    /\ init_pc # "unstarted"
    /\ running = NoTask
    /\ \E text \in Texts :
          Goto(r, "query", [kind |-> "text", text |-> text])
    /\ running' = r
    /\ UNCHANGED <<stub, repeats>>
    /\ UNCHANGED <<globals, init_pc, outcome, calls, tmpfiles>>

\* main.py:192-196: no try block, so what VoiceResponse(...) raises leaves
\* the handler
ChatTextRespond(r) ==
    /\ req[r].pc = "respond"
    /\ req[r].kind = "text"
    /\ running = r
    /\ IF req[r].result.response.none
       THEN Unhandled(r, "ValidationError")
       ELSE Respond(r, VoiceResponse(req[r].text,
                                     req[r].result.response.str,
                                     req[r].result.search_triggered))
    /\ UNCHANGED <<stub, repeats>>
    /\ UNCHANGED <<globals, init_pc, calls, tmpfiles>>

-----------------------------------------------------------------------------

chat_voice(r) ==
    \/ ChatVoiceCall(r)
    \/ ChatVoiceValidate(r)
    \/ ChatVoiceStore(r)
    \/ ChatVoiceRead(r)
    \/ ChatVoiceTranscribe(r)
    \/ TranscribeReturn(r)
    \/ ChatVoiceUnlink(r)
    \/ ChatVoiceCheck(r)
    \/ ChatVoiceRespond(r)

chat_text(r) ==
    \/ ChatTextCall(r)
    \/ ChatTextRespond(r)

Next ==
    \/ startup_event
    \/ initialize_models
    \/ \E r \in Reqs : chat_voice(r)
    \/ \E r \in Reqs : ProcessQuery(r)
    \/ \E r \in Reqs : ProcessQueryReturn(r)
    \/ \E r \in Reqs : chat_text(r)

Spec == Init /\ [][Next]_vars

\* the requests alone
NextStub ==
    \/ \E r \in Reqs : chat_voice(r)
    \/ \E r \in Reqs : ProcessQuery(r)
    \/ \E r \in Reqs : ProcessQueryReturn(r)
    \/ \E r \in Reqs : chat_text(r)

\* the service with deterministic stubs
SpecStub == InitStub /\ [][NextStub]_vars

-----------------------------------------------------------------------------
(* Properties *)

\* the step in which the handler of r ends
Completes(r) == req[r].pc # "done" /\ req'[r].pc = "done"

HTTPError(status_code, detail) ==
    [status |-> status_code, detail |-> detail, body |-> NoBody, fault |-> ""]

OK200(body) ==
    [status |-> 200, detail |-> "", body |-> body, fault |-> ""]

\* C1: a voice request that stored its upload and went on to transcription
\* has left no temp file behind once it is complete.
C1_TempFileRemoved ==
    \A r \in Reqs :
        (req[r].pc = "done" /\ calls[r].transcribe > 0) => r \notin tmpfiles

\* C2: every 200 result carries a non-empty response and a boolean
\* search_triggered.
C2_ResponseNonEmpty ==
    \A r \in Reqs :
        outcome[r].status = 200 =>
            /\ outcome[r].body.response # ""
            /\ outcome[r].body.search_triggered \in BOOLEAN

\* the upload names that end in .wav, .mp3, .ogg or .flac, written out
C3_SupportedNames ==
    { <<"c", ".", "w", "a", "v">>, <<"c", ".", "m", "p", "3">>,
      <<"c", ".", "o", "g", "g">>, <<"c", ".", "f", "l", "a", "c">>,
      <<".", "w", "a", "v">> }

\* C3: validation sends a file name with a supported suffix on to storage
\* and ends every other request with 400 UnsupportedFormat; a request that
\* ended with 400 has created no temp file and has invoked neither storage,
\* the transcription engine nor the agent, and no voice request is past
\* validation with an unsupported name.
C3_FormatValidation ==
    /\ [][\A r \in Reqs :
            (req[r].pc = "validate" /\ req'[r].pc # "validate") =>
                IF req[r].filename \in C3_SupportedNames
                THEN /\ req'[r].pc = "store"
                     /\ outcome'[r] = NoOutcome
                ELSE /\ req'[r].pc = "done"
                     /\ outcome'[r] = HTTPError(400, UnsupportedFormat)]_vars
    /\ [](\A r \in Reqs :
            /\ outcome[r].status = 400 =>
                  calls[r] = NoCalls /\ r \notin tmpfiles
            /\ (req[r].kind = "voice" /\ req[r].pc # "validate") =>
                  req[r].filename \in C3_SupportedNames)

\* one request rejected with 400 while another, with a supported name, is
\* about to store its upload
C3_Witness ==
    \E r, q \in Reqs :
        /\ outcome[r].status = 400
        /\ req[q].pc = "store"
        /\ req[q].filename = <<"c", ".", "f", "l", "a", "c">>

\* the transcription of r returned, and its text is empty after trimming:
\* absent, empty or whitespace only
C4_BlankTranscription(r) ==
    /\ req[r].kind = "voice"
    /\ req[r].pc \in {"unlink", "check", "query", "agent", "respond"}
    /\ \/ ~req[r].stt_result.has_text
       \/ \A i \in 1..Len(req[r].stt_result.text) :
              req[r].stt_result.text[i] \in Whitespace

C4_ClarificationResult ==
    OK200(VoiceResponse(<<>>, Clarification, FALSE))

\* C4 as claimed: a voice request whose transcription is empty after
\* trimming ends with exactly the clarification result, and neither
\* process_query nor the agent was invoked for it.
C4_EmptyTranscriptClarifies ==
    [][\A r \in Reqs :
        C4_BlankTranscription(r) =>
            /\ calls'[r].process_query = 0
            /\ calls'[r].agent = 0
            /\ Completes(r) => outcome'[r] = C4_ClarificationResult]_vars

\* C4 as amended: the same, except that a request whose temp file removal
\* raises ends with 500 "Internal server error"; process_query and the
\* agent are invoked in neither case.
C4_EmptyTranscriptClarifiesUnlessUnlinkRaises ==
    [][\A r \in Reqs :
        C4_BlankTranscription(r) =>
            /\ calls'[r].process_query = 0
            /\ calls'[r].agent = 0
            /\ req'[r].pc \in {"unlink", "check", "done"}
            /\ Completes(r) =>
                  IF req[r].pc = "unlink"
                  THEN outcome'[r] = HTTPError(500, InternalError)
                  ELSE outcome'[r] = C4_ClarificationResult]_vars

\* a whitespace-only transcription answered with the clarification result
\* while the agent is not ready, and another one while it is ready
C4_Witness ==
    \E r, q \in Reqs :
        /\ outcome[r] = C4_ClarificationResult
        /\ calls[r].engine = 1
        /\ ~agent_executor
        /\ C4_BlankTranscription(q)
        /\ req[q].stt_result.text = <<"\n", " ">>
        /\ req[q].pc = "check"

\* the agent was invoked for r and a fault arose: the invocation raised, or
\* reading its result did (no dict, or a trace that is None)
C5_AgentFault(r) ==
    /\ req[r].pc = "respond"
    /\ calls[r].agent > 0
    /\ \/ req[r].agent_result.raises
       \/ ~req[r].agent_result.is_dict
       \/ req[r].agent_result.has_steps /\ req[r].agent_result.steps_none

\* C5: with the agent ready and a non-empty query, process_query returns to
\* its caller instead of raising; after a fault of the agent or of reading
\* its result it returns the apology with search_triggered false, and the
\* request then ends with 200 carrying that response.
C5_AgentFaultApologises ==
    /\ [](\A r \in Reqs :
            C5_AgentFault(r) =>
                req[r].result = [response |-> PyStr(Apology),
                                 search_triggered |-> FALSE])
    /\ [][\A r \in Reqs :
            /\ ( /\ req[r].pc = "query"
                 /\ agent_executor
                 /\ Query(r) # <<>>
                 /\ req'[r] # req[r] ) =>
                   /\ req'[r].pc = "agent"
                   /\ calls'[r].agent = 1
                   /\ outcome'[r] = NoOutcome
            /\ (req[r].pc = "agent" /\ req'[r] # req[r]) =>
                   /\ req'[r].pc = "respond"
                   /\ outcome'[r] = NoOutcome
            /\ (C5_AgentFault(r) /\ Completes(r)) =>
                   outcome'[r] = OK200(VoiceResponse(Query(r), Apology, FALSE))]_vars

\* a voice request answered with the apology after the agent raised, and a
\* text request whose agent result is no dict about to be answered
C5_Witness ==
    \E r, q \in Reqs :
        /\ outcome[r] = OK200(VoiceResponse(<<"h", "i">>, Apology, FALSE))
        /\ calls[r].engine = 1
        /\ calls[r].agent = 1
        /\ C5_AgentFault(q)
        /\ req[q].kind = "text"
        /\ ~req[q].agent_result.raises

\* the agent was invoked for r and its result was read without a fault
C6_AgentReturned(r) ==
    /\ req[r].pc = "respond"
    /\ calls[r].agent > 0
    /\ ~req[r].agent_result.raises
    /\ req[r].agent_result.is_dict
    /\ ~(req[r].agent_result.has_steps /\ req[r].agent_result.steps_none)

\* the trace of r is present and names the tool "WebSearch" in some entry
C6_TraceNamesWebSearch(r) ==
    /\ req[r].agent_result.has_steps
    /\ "WebSearch" \in { req[r].agent_result.steps[i] :
                            i \in 1..Len(req[r].agent_result.steps) }

\* C6: for an agent result returned without a fault, search_triggered, in
\* what process_query returns and in the 200 result of the request, is true
\* exactly when some trace entry names "WebSearch"; an absent trace, an
\* empty trace and a trace of other tools give false.
C6_SearchTriggeredIffWebSearch ==
    /\ [](\A r \in Reqs :
            C6_AgentReturned(r) =>
                (req[r].result.search_triggered <=> C6_TraceNamesWebSearch(r)))
    /\ [][\A r \in Reqs :
            (C6_AgentReturned(r) /\ Completes(r) /\ outcome'[r].status = 200) =>
                (outcome'[r].body.search_triggered <=> C6_TraceNamesWebSearch(r))]_vars

\* a 200 result with search_triggered true, and a request whose trace names
\* another tool before "WebSearch"
C6_Witness ==
    \E r, q \in Reqs :
        /\ outcome[r].status = 200
        /\ outcome[r].body.search_triggered
        /\ C6_AgentReturned(q)
        /\ req[q].agent_result.steps = <<"Calculator", "WebSearch">>
        /\ req[q].result.search_triggered

\* C7: a voice request that reaches transcription while whisper_model is
\* None ends with 503 and no VoiceResult, with neither the engine nor
\* process_query nor the agent invoked.
C7_EngineNotReady503 ==
    [][\A r \in Reqs :
        (req[r].pc = "transcribe" /\ ~whisper_model /\ req'[r] # req[r]) =>
            /\ req'[r].pc = "done"
            /\ outcome'[r] = HTTPError(503, NotInitialized)
            /\ calls'[r].transcribe = 1
            /\ calls'[r].engine = 0
            /\ calls'[r].process_query = 0
            /\ calls'[r].agent = 0]_vars

\* a .wav upload that ended with 503 at transcription: the engine was never
\* invoked for it
C7_Witness ==
    \E r \in Reqs :
        /\ outcome[r] = HTTPError(503, NotInitialized)
        /\ calls[r].transcribe = 1
        /\ calls[r].engine = 0
        /\ ~whisper_model

\* C8: every completed request ended in a 200 VoiceResult, 400, 503 or a 500
\* with one of the fixed details; no fault left the handler unconverted.
C8_EveryFaultConverted ==
    \A r \in Reqs :
        req[r].pc = "done" =>
            /\ outcome[r].fault = ""
            /\ \/ outcome[r].status = 200
               \/ outcome[r] = HTTPError(400, UnsupportedFormat)
               \/ outcome[r] = HTTPError(503, NotInitialized)
               \/ outcome[r] \in { HTTPError(500, d) :
                      d \in {UploadFailed, TranscriptionFailed, InternalError} }

\* C9: no step turns a constructed global back to None; a step that changes
\* a global is a step of the initialization task and of no request; a step
\* of a request changes neither a global nor the task's position.
C9_ReadinessWrittenOnceByInit ==
    [][ /\ whisper_model => whisper_model'
        /\ groq_llm => groq_llm'
        /\ search_tool => search_tool'
        /\ agent_executor => agent_executor'
        /\ globals' # globals =>
              /\ init_pc' # init_pc
              /\ running \in {NoTask, InitTask}
              /\ UNCHANGED <<req, outcome, calls, tmpfiles>>
        /\ (req' # req \/ outcome' # outcome \/ calls' # calls
               \/ tmpfiles' # tmpfiles) =>
              UNCHANGED <<globals, init_pc>> ]_vars

\* both capabilities ready after requests were answered before
\* initialization ran, and a request in flight
C9_Witness ==
    \E r, q \in Reqs :
        /\ whisper_model /\ agent_executor
        /\ outcome[r].status = 503
        /\ req[q].pc = "respond"

\* C10: once a stage of initialize_models has failed, the task's position
\* and the globals never change again, and every request that then calls
\* transcribe_audio without an engine, or process_query without an agent,
\* ends with 503.
C10_FailedInitIsPermanent ==
    /\ [](init_pc = "failed" => ~agent_executor)
    /\ [][init_pc = "failed" =>
            /\ init_pc' = "failed"
            /\ UNCHANGED globals
            /\ \A r \in Reqs :
                  /\ ( /\ req[r].pc = "transcribe"
                       /\ ~whisper_model
                       /\ req'[r] # req[r] ) =>
                         outcome'[r] = HTTPError(503, NotInitialized)
                  /\ ( /\ req[r].pc = "query"
                       /\ ~agent_executor
                       /\ req'[r] # req[r] ) =>
                         outcome'[r] = HTTPError(503, NotInitialized)]_vars

\* initialization failed after the engine was loaded: one request got 503
\* from process_query after its transcription, a later one as well
C10_Witness ==
    /\ init_pc = "failed"
    /\ whisper_model
    /\ ~agent_executor
    /\ \A r \in Reqs :
          /\ outcome[r] = HTTPError(503, NotInitialized)
          /\ calls[r].process_query = 1
    /\ \E r \in Reqs : calls[r].engine = 1

\* r is inside an invocation of the transcription engine or of the agent
C11_Inside(r) == req[r].pc \in {"engine", "agent"}

\* a step of the handler of q
C11_HandlerStep(q) ==
    chat_voice(q) \/ ProcessQuery(q) \/ ProcessQueryReturn(q) \/ chat_text(q)

\* C11: while one request is inside an engine or agent invocation, every
\* other request in flight can take a step of its own.
C11_WaitingDoesNotBlockOthers ==
    \A r, q \in Reqs :
        (r # q /\ C11_Inside(r) /\ req[q].pc \notin {"idle", "done"}) =>
            ENABLED C11_HandlerStep(q)

\* what the code does instead: no two requests are inside an invocation at
\* once, and while one is inside an invocation no other request takes a
\* step, completing included
C11_OneInvocationAtATime ==
    /\ [](\A r, q \in Reqs : (C11_Inside(r) /\ C11_Inside(q)) => r = q)
    /\ [][\A r, q \in Reqs :
            (r # q /\ C11_Inside(r)) => UNCHANGED <<req[q], outcome[q]>>]_vars

\* the agent returned for r without a fault and without a usable output:
\* "output" absent, None or empty
C13_NoUsableOutput(r) ==
    /\ C6_AgentReturned(r)
    /\ \/ ~req[r].agent_result.has_output
       \/ req[r].agent_result.output_none
       \/ req[r].agent_result.output = ""

C12_FileFault(r) ==
    \/ outcome[r] = HTTPError(500, UploadFailed)
    \/ /\ outcome[r] = HTTPError(500, InternalError)
       /\ calls[r].unlink = 1
       /\ calls[r].process_query = 0

C13_FallbackForNoUsableOutput ==
    \A r \in Reqs :
        C13_NoUsableOutput(r) => req[r].result.response = PyStr(Fallback)

\* the stages of chat_voice in the order of the code
C14_Stage(pc) ==
    CASE pc = "idle" -> 0
      [] pc = "validate" -> 1
      [] pc = "store" -> 2
      [] pc = "read" -> 3
      [] pc = "transcribe" -> 4
      [] pc = "engine" -> 5
      [] pc = "unlink" -> 6
      [] pc = "check" -> 7
      [] pc = "query" -> 8
      [] pc = "agent" -> 9
      [] pc = "respond" -> 10
      [] pc = "done" -> 11

\* C14: a voice request moves forward through its stages and visits none
\* twice; storage, the engine, temp-file removal, process_query and the
\* agent are each invoked at most once; storage is invoked only for a
\* validated name, the engine only once the upload is stored, the agent only
\* for the non-empty transcript the engine's text gives; a completed request
\* changes nothing any more.
C14_StagesInOrderOnce ==
    /\ [](\A r \in Reqs : \A k \in DOMAIN calls[r] : calls[r][k] <= 1)
    /\ [][\A r \in Reqs :
            /\ (req[r].kind = "voice" /\ req'[r] # req[r]) =>
                  C14_Stage(req'[r].pc) > C14_Stage(req[r].pc)
            /\ calls'[r].storage > calls[r].storage =>
                  /\ req[r].pc = "store"
                  /\ req[r].filename \in C3_SupportedNames
            /\ calls'[r].engine > calls[r].engine =>
                  /\ req[r].pc = "transcribe"
                  /\ calls[r].storage = 1
                  /\ r \in tmpfiles
            /\ (req[r].kind = "voice" /\ calls'[r].agent > calls[r].agent) =>
                  /\ req[r].pc = "query"
                  /\ calls[r].engine = 1
                  /\ req[r].transcript # <<>>
                  /\ req[r].transcript = Strip(req[r].stt_result.text)
            /\ req[r].pc = "done" =>
                  /\ UNCHANGED <<req[r], outcome[r], calls[r]>>
                  /\ (r \in tmpfiles') = (r \in tmpfiles)]_vars

\* a voice request that went through every stage and was answered
C14_Witness ==
    \E r \in Reqs :
        /\ req[r].pc = "done"
        /\ outcome[r].status = 200
        /\ calls[r] = [k \in DOMAIN NoCalls |-> 1]

\* C15: a request inside the engine invocation either goes on with a text
\* the engine returned, or, the invocation having raised, ends with 500
\* "Audio processing failed", without a VoiceResult and with neither
\* process_query nor the agent invoked.
C15_EngineFaultIsTranscriptionFailed ==
    [][\A r \in Reqs :
        (req[r].pc = "engine" /\ req'[r] # req[r]) =>
            IF Completes(r)
            THEN /\ outcome'[r] = HTTPError(500, TranscriptionFailed)
                 /\ calls'[r].process_query = 0
                 /\ calls'[r].agent = 0
            ELSE /\ req'[r].pc = "unlink"
                 /\ outcome'[r] = NoOutcome
                 /\ ~req'[r].stt_result.raises
                 /\ ~req'[r].stt_result.text_none]_vars

\* an engine fault answered with 500 "Audio processing failed" while the
\* agent is ready
C15_Witness ==
    \E r \in Reqs :
        /\ outcome[r] = HTTPError(500, TranscriptionFailed)
        /\ calls[r].engine = 1
        /\ calls[r].agent = 0
        /\ agent_executor

\* C16: process_query without an agent ends the request with 503 whatever
\* the query, the empty one included; with an agent, the empty query gets
\* the clarification, which a text request then returns with 200; the agent
\* is invoked in neither case.
C16_ReadinessBeforeShortCircuit ==
    [][\A r \in Reqs :
        /\ (req[r].pc = "query" /\ req'[r] # req[r]) =>
              /\ calls'[r].process_query = 1
              /\ IF ~agent_executor
                 THEN /\ outcome'[r] = HTTPError(503, NotInitialized)
                      /\ calls'[r].agent = 0
                 ELSE (Query(r) = <<>>) =>
                      /\ req'[r].pc = "respond"
                      /\ req'[r].result = [response |-> PyStr(Clarification),
                                           search_triggered |-> FALSE]
                      /\ calls'[r].agent = 0
        /\ (req[r].kind = "text" /\ req[r].text = <<>> /\ Completes(r)) =>
              /\ calls'[r].agent = 0
              /\ IF agent_executor
                 THEN outcome'[r] = OK200(VoiceResponse(<<>>, Clarification, FALSE))
                 ELSE outcome'[r] = HTTPError(503, NotInitialized)]_vars

\* an empty text about to be refused with 503 for want of an agent, after
\* another request was refused the same way by process_query
C16_Witness ==
    \E r, q \in Reqs :
        /\ ~agent_executor
        /\ outcome[r] = HTTPError(503, NotInitialized)
        /\ calls[r].process_query = 1
        /\ req[q].kind = "text"
        /\ req[q].text = <<>>
        /\ req[q].pc = "query"

\* C18: the agent is constructed only after the engine, the language-model
\* client and the search tool; a voice request that process_query ends with
\* 503 has had its transcription run and its temp file removed, and a
\* request that transcribe_audio ends with 503 finds the agent not ready.
C18_AgentReadyImpliesAllReady ==
    /\ [](agent_executor => (whisper_model /\ groq_llm /\ search_tool))
    /\ [](search_tool => (whisper_model /\ groq_llm))
    /\ [](groq_llm => whisper_model)
    /\ [][\A r \in Reqs :
            /\ (req[r].kind = "voice" /\ req[r].pc = "query" /\ Completes(r)) =>
                  /\ outcome'[r] = HTTPError(503, NotInitialized)
                  /\ whisper_model
                  /\ calls'[r].engine = 1
                  /\ calls'[r].unlink = 1
                  /\ r \notin tmpfiles'
            /\ (req[r].pc = "transcribe" /\ Completes(r)) =>
                  /\ outcome'[r] = HTTPError(503, NotInitialized)
                  /\ ~agent_executor]_vars

\* initialization failed after the engine was loaded, and a voice request
\* was refused by process_query after its transcription and the removal of
\* its temp file
C18_Witness ==
    \E r \in Reqs :
        /\ init_pc = "failed"
        /\ whisper_model /\ groq_llm /\ search_tool /\ ~agent_executor
        /\ outcome[r] = HTTPError(503, NotInitialized)
        /\ calls[r].engine = 1
        /\ calls[r].unlink = 1
        /\ r \notin tmpfiles

\* C19: a request that ended with 500 "File upload failed" has left no temp
\* file behind and has invoked neither the engine nor the agent.
C19_UploadFailureLeavesNoFile ==
    \A r \in Reqs :
        outcome[r] = HTTPError(500, UploadFailed) =>
            /\ r \notin tmpfiles
            /\ calls[r].engine = 0
            /\ calls[r].agent = 0

\* what the code does on a failed upload, the temp file apart: 500 "File
\* upload failed" with neither the engine nor the agent invoked
C19_UploadFailureInvokesNothing ==
    /\ [][\A r \in Reqs :
            (req[r].pc \in {"store", "read"} /\ Completes(r)) =>
                outcome'[r] = HTTPError(500, UploadFailed)]_vars
    /\ [](\A r \in Reqs :
            outcome[r] = HTTPError(500, UploadFailed) =>
                /\ calls[r].transcribe = 0
                /\ calls[r].engine = 0
                /\ calls[r].process_query = 0
                /\ calls[r].agent = 0)

\* C17: while initialize_models is between two construction stages, a
\* request that arrives can be received.
C17_RequestsServedDuringInit ==
    \A r \in Reqs :
        (init_pc \in {"llm", "search", "agent"} /\ req[r].pc = "idle") =>
            ENABLED (ChatVoiceCall(r) \/ ChatTextCall(r))

\* what the code does instead: from its first stage to its end the task
\* keeps the event loop and no request takes a step
C17_InitRunsWithoutInterleaving ==
    /\ [](init_pc \in {"llm", "search", "agent"} => running = InitTask)
    /\ [][(init_pc \in {"llm", "search", "agent"}) =>
            UNCHANGED <<req, outcome, calls, tmpfiles>>]_vars

====
